---- MODULE Spec2Model ----
(***************************************************************************)
(* The variant reset engine of reset_variants.py (main and its helpers)    *)
(* running against the remote catalog and the backup store.                *)
(*                                                                         *)
(* One action per external call of main: every remote request and every   *)
(* backup-store statement is one step, so that the states between two      *)
(* calls are states of the model.  The remote catalog is the collaborator  *)
(* described by the contract of the Remote Catalog Client; the store is    *)
(* the two temporary tables of ensure_temp_tables.                         *)
(***************************************************************************)
EXTENDS Integers, Sequences, FiniteSets, TLC

\* ------------------------------------------------------------------ bounds
MaxVariants == 2
MaxBatch == 2
MaxFailures == 1

\* ------------------------------------------------------------ input domains
Products == {"P1", "P2"}
PIndex(p) == IF p = "P1" THEN 0 ELSE 1

Locations == {"L1", "L2"}
\* the location the platform stocks a newly created inventory item at
DefaultLocation == "L1"

\* option values; the platform derives a variant's title from them.  They are
\* character sequences, and the last one carries the marker in upper case
Red == <<"R", "e", "d">>
Blu == <<"B", "l", "u">>
Perso == <<"P", "E", "R", "S", "O">>

\* the option values of a product's variants, in catalog order: distinct within
\* a product (Red and Blu are interchangeable, so Red comes first)
OptionLists ==
    { <<>>, <<Red>>, <<Perso>>, <<Red, Blu>>, <<Red, Perso>>, <<Perso, Red>>,
      <<Red, Blu, Perso>>, <<Red, Perso, Blu>>, <<Perso, Red, Blu>> }

Marker == <<"p", "e", "r", "s", "o">>

\* inventory of an original variant: inventory_management and its levels
InventoryChoices ==
    { [inventory_management |-> FALSE, levels |-> {}],
      [inventory_management |-> TRUE,
       levels |-> {[location_id |-> "L2", available |-> 5]}],
      [inventory_management |-> TRUE,
       levels |-> {[location_id |-> "L1", available |-> 3],
                   [location_id |-> "L2", available |-> 5]}] }

\* PRODUCT_IDS: the batch, possibly naming the same product twice; the first
\* identifier is P1 (the two products are interchangeable)
Batches ==
    { b \in UNION { [1..n -> Products] : n \in 1..MaxBatch } : b[1] = "P1" }

\* ------------------------------------------------------------------- state
VARIABLES
    batch,               \* product_ids
    pi,                  \* index of the product being processed (1-based)
    pc,                  \* position in main
    exit_code,           \* process exit code, -1 while running
    rvariants,           \* remote: product -> list of variants
    rlevels,             \* remote: inventory item -> set of levels
    nextId,              \* remote: next identity to assign
    variant_backup,      \* table variant_backup
    inventory_backup,    \* table inventory_backup
    dirty,               \* the store holds writes not yet committed
    variants,            \* main: variants
    idx,                 \* main: loop index (1-based) of the current loop
    original_locations,  \* main: original_locations
    rows,                \* main: rows
    variant_mapping,     \* main: variant_mapping, in insertion order
    inventory_rows,      \* main: inventory_rows still to process
    to_remove,           \* main: extra locations of the current item still to remove
    fails,               \* injected failures so far (transport / store errors)
    deleteLog,           \* history: variant ids of the delete requests of this run
    createLog,           \* history: backup-row ids of the create requests of this run
    created,             \* history: [old, item] of the creates that succeeded
    conflict,            \* history: a delete of this run was refused as last variant
    inv_failed,          \* history: new items with a failed/refused inventory call
    pre_levels,          \* history: levels of each fetched variant at FETCH
    warned,              \* history: unrestorable inventory rows and their warnings
    setLog,              \* history: set_inventory_level calls of this run
    getLog,              \* history: items STEP 8 asked the levels of, this run
    removeLog,           \* history: remove_inventory_level calls of this run
    exhausted,           \* history: steps of this run whose remote call gave up
    completed,           \* history: products that reached DONE, in order
    slept,               \* history: time.sleep(0.6) followed the last mutating call
    caller,              \* retry: the function running one remote operation
    attempt,             \* retry: the loop variable attempt
    outcome,             \* retry: "running", "returned" or "raised"
    trail,               \* retry history: per request sent, the response and the wait
    sessions,            \* store: the temporary tables of each connection
    runs,                \* concurrent runs: position, rows written, rows read
    env,                 \* configuration: the environment variables
    require_product_ids, \* configuration: the argument of Config.from_env
    entry,               \* configuration: the function that reads the environment
    config_result,       \* configuration: "pending", "exit_1", "Config" or "connect_db"
    shop,                \* sync: the products of the remote catalog
    tables,              \* sync: the tables online_products and price_history
    sync                 \* sync: position and local variables of sync_products

remote == <<rvariants, rlevels, nextId>>
store == <<variant_backup, inventory_backup, dirty>>
locals == <<variants, idx, original_locations, rows, variant_mapping,
            inventory_rows, to_remove>>
invlog == <<setLog, getLog, removeLog>>
runlog == <<deleteLog, createLog, created, conflict, inv_failed, pre_levels,
            warned, invlog>>
history == <<runlog, exhausted>>
mainvars == <<batch, pi, pc, exit_code, remote, store, locals, fails, history,
              completed, slept>>
retry == <<caller, attempt, outcome, trail>>
concurrent == <<sessions, runs>>
config == <<env, require_product_ids, entry, config_result>>
syncvars == <<shop, tables, sync>>
outside == <<retry, concurrent, config, syncvars>>
vars == <<mainvars, outside>>

\* ------------------------------------------------------------------ helpers
Range(s) == { s[i] : i \in DOMAIN s }

EmptyMap == [x \in {} |-> {}]

\* str.lower() on the alphabet of Titles
LowerChar(c) ==
    CASE c = "P" -> "p" [] c = "E" -> "e" [] c = "R" -> "r"
      [] c = "S" -> "s" [] c = "O" -> "o" [] OTHER -> c

Lower(s) == [i \in DOMAIN s |-> LowerChar(s[i])]

Contains(s, t) ==
    \E i \in 0..(Len(s) - Len(t)) : SubSeq(s, i + 1, i + Len(t)) = t

\* (mutation of Excluded: a variant still in the catalog is skipped too)
ExcludedOrPresent(v) ==
    \/ Contains(Lower(v.title), Marker)
    \/ \E i \in DOMAIN rvariants[batch[pi]] : rvariants[batch[pi]][i].id = v.id

\* (mutation of Excluded: the test without lower())
ExcludedCaseSensitive(v) == Contains(v.title, Marker)

\* "perso" in v.get("title", "").lower()
Excluded(v) == Contains(Lower(v.title), Marker)

\* dict: variant_mapping as a list of <<key, value>> in insertion order
MapKeys(m) == { m[i][1] : i \in DOMAIN m }

MapGet(m, k) == (CHOOSE i \in DOMAIN m : m[i][1] = k)

MapVal(m, k) == m[MapGet(m, k)][2]

MapSet(m, k, x) ==
    IF k \in MapKeys(m)
    THEN [m EXCEPT ![MapGet(m, k)] = <<k, x>>]
    ELSE Append(m, <<k, x>>)

product_id == batch[pi]

\* ------------------------------------------------------- the remote catalog
\* identities: variants take odd numbers, their inventory items the next even
InitialId(p, k) == 2 * (PIndex(p) * MaxVariants + k) - 1

InitialVariant(p, k, option, inv) ==
    [id |-> InitialId(p, k), inventory_item_id |-> InitialId(p, k) + 1,
     option1 |-> option, title |-> option, price |-> 10 * k,
     inventory_management |-> inv.inventory_management]

\* the catalogs a product may hold before the batch: option values and the
\* inventory of each variant
Catalogs ==
    { oc \in OptionLists \X UNION { [1..n -> InventoryChoices] : n \in 0..MaxVariants } :
        /\ Len(oc[1]) <= MaxVariants
        /\ DOMAIN oc[2] = DOMAIN oc[1] }

InitialList(p, oc) ==
    [k \in 1..Len(oc[1]) |-> InitialVariant(p, k, oc[1][k], oc[2][k])]

InitialLevels(cat) ==
    [item \in { InitialId(p, k) + 1 : <<p, k>> \in { pk \in Products \X (1..MaxVariants) :
                                                       pk[2] <= Len(cat[pk[1]][1]) } } |->
        LET pk == CHOOSE pk \in Products \X (1..MaxVariants) :
                      /\ pk[2] <= Len(cat[pk[1]][1])
                      /\ InitialId(pk[1], pk[2]) + 1 = item
        IN  cat[pk[1]][2][pk[2]].levels]

VariantIds(p) == { rvariants[p][i].id : i \in DOMAIN rvariants[p] }

\* listVariants
ListVariants(p) == rvariants[p]

\* deleteVariant: NotFound when the variant is gone, Conflict when it is the
\* product's last remaining variant
IsLastVariant(vid) == \E p \in Products : VariantIds(p) = {vid}

\* (mutation of DeleteAccepted: a platform that lets the last variant go)
DeleteAcceptedLast(vid) == \E p \in Products : vid \in VariantIds(p)

DeleteAccepted(vid) ==
    \E p \in Products : vid \in VariantIds(p) /\ Len(rvariants[p]) > 1

ItemOf(vid) ==
    LET p == CHOOSE q \in Products : vid \in VariantIds(q)
        i == CHOOSE j \in DOMAIN rvariants[p] : rvariants[p][j].id = vid
    IN  rvariants[p][i].inventory_item_id

VariantsAfterDelete(vid) ==
    [p \in Products |-> SelectSeq(rvariants[p], LAMBDA v : v.id # vid)]

LevelsAfterDelete(vid) ==
    [item \in DOMAIN rlevels \ {ItemOf(vid)} |-> rlevels[item]]

\* createVariant: ValidationError on a duplicate option signature; a new
\* variant gets a new identity and a new inventory item, stocked at the
\* default location; it is placed after the variants that exist
CreateAccepted(p, payload) ==
    \A i \in DOMAIN rvariants[p] : rvariants[p][i].option1 # payload.option1

NewVariant(payload) ==
    [id |-> nextId, inventory_item_id |-> nextId + 1,
     option1 |-> payload.option1, title |-> payload.option1,
     price |-> payload.price,
     inventory_management |-> payload.inventory_management]

VariantsAfterCreate(p, payload) ==
    [rvariants EXCEPT ![p] = Append(@, NewVariant(payload))]

LevelsAfterCreate ==
    (nextId + 1 :> {[location_id |-> DefaultLocation, available |-> 0]}) @@ rlevels

\* getInventoryLevels
GetLevels(item) == IF item \in DOMAIN rlevels THEN rlevels[item] ELSE {}

\* setInventoryLevel
SetAccepted(item) == item \in DOMAIN rlevels

LevelsAfterSet(item, loc, available) ==
    [rlevels EXCEPT ![item] =
        { l \in @ : l.location_id # loc }
            \cup {[location_id |-> loc, available |-> available]}]

\* removeInventoryLevel
RemoveAccepted(item, loc) ==
    item \in DOMAIN rlevels /\ \E l \in rlevels[item] : l.location_id = loc

LevelsAfterRemove(item, loc) ==
    [rlevels EXCEPT ![item] = { l \in @ : l.location_id # loc }]

\* ------------------------------------------------------------------- Init
\* no request is being retried
RetryIdle ==
    /\ caller = "main"
    /\ attempt = 0
    /\ outcome = "returned"
    /\ trail = <<>>

\* no other run is connected to the store
ConcurrentIdle ==
    /\ sessions = EmptyMap
    /\ runs = EmptyMap

\* the environment has been read
ConfigIdle ==
    /\ env = EmptyMap
    /\ require_product_ids = FALSE
    /\ entry = "none"
    /\ config_result = "connect_db"

\* sync_products is not running
SyncIdle ==
    /\ shop = <<>>
    /\ tables = EmptyMap
    /\ sync = EmptyMap

Init ==
    /\ batch \in Batches
    /\ \E cat \in [Products -> Catalogs] :
          /\ \A p \in Products \ Range(batch) : cat[p] = <<<<>>, <<>>>>
          /\ rvariants = [p \in Products |-> InitialList(p, cat[p])]
          /\ rlevels = InitialLevels(cat)
    /\ nextId = 2 * Cardinality(Products) * MaxVariants + 1
    /\ pi = 0
    /\ pc = "start"
    /\ exit_code = -1
    /\ variant_backup = {}
    /\ inventory_backup = {}
    /\ dirty = FALSE
    /\ variants = <<>>
    /\ idx = 0
    /\ original_locations = EmptyMap
    /\ rows = <<>>
    /\ variant_mapping = <<>>
    /\ inventory_rows = {}
    /\ to_remove = {}
    /\ fails = 0
    /\ deleteLog = <<>>
    /\ createLog = <<>>
    /\ created = {}
    /\ conflict = FALSE
    /\ inv_failed = {}
    /\ pre_levels = EmptyMap
    /\ warned = {}
    /\ setLog = {}
    /\ getLog = {}
    /\ removeLog = {}
    /\ exhausted = {}
    /\ completed = <<>>
    /\ slept = TRUE
    /\ RetryIdle
    /\ ConcurrentIdle
    /\ ConfigIdle
    /\ SyncIdle

\* ------------------------------------------------------------ reset_variants
\* a transport error or a store error may be injected while the budget lasts
CanFail == fails < MaxFailures

Injected == CanFail /\ fails' = fails + 1

\* an exception that leaves main: caught by the __main__ block, exit code 1
Crash ==
    /\ pc' = "crashed"
    /\ exit_code' = 1

\* (mutation of Advance: the loop starts the same product again)
AdvanceStaying ==
    /\ pi' = pi
    /\ pc' = "fetch"
    /\ variants' = <<>>
    /\ idx' = 0
    /\ original_locations' = EmptyMap
    /\ rows' = <<>>
    /\ variant_mapping' = <<>>
    /\ inventory_rows' = {}
    /\ to_remove' = {}
    /\ deleteLog' = <<>>
    /\ createLog' = <<>>
    /\ created' = {}
    /\ conflict' = FALSE
    /\ inv_failed' = {}
    /\ pre_levels' = EmptyMap
    /\ warned' = {}
    /\ setLog' = {}
    /\ getLog' = {}
    /\ removeLog' = {}
    /\ exhausted' = {}

\* (mutation of Advance: the loop skips the product after this one)
AdvanceSkipping ==
    /\ pi' = pi + 2
    /\ pc' = IF pi + 2 <= Len(batch) THEN "fetch" ELSE "close"
    /\ variants' = <<>>
    /\ idx' = 0
    /\ original_locations' = EmptyMap
    /\ rows' = <<>>
    /\ variant_mapping' = <<>>
    /\ inventory_rows' = {}
    /\ to_remove' = {}
    /\ deleteLog' = <<>>
    /\ createLog' = <<>>
    /\ created' = {}
    /\ conflict' = FALSE
    /\ inv_failed' = {}
    /\ pre_levels' = EmptyMap
    /\ warned' = {}
    /\ setLog' = {}
    /\ getLog' = {}
    /\ removeLog' = {}
    /\ exhausted' = {}

\* the for loop moves to the next product identifier, or leaves the loop
Advance ==
    /\ pi' = pi + 1
    /\ pc' = IF pi + 1 <= Len(batch) THEN "fetch" ELSE "close"
    /\ variants' = <<>>
    /\ idx' = 0
    /\ original_locations' = EmptyMap
    /\ rows' = <<>>
    /\ variant_mapping' = <<>>
    /\ inventory_rows' = {}
    /\ to_remove' = {}
    /\ deleteLog' = <<>>
    /\ createLog' = <<>>
    /\ created' = {}
    /\ conflict' = FALSE
    /\ inv_failed' = {}
    /\ pre_levels' = EmptyMap
    /\ warned' = {}
    /\ setLog' = {}
    /\ getLog' = {}
    /\ removeLog' = {}
    /\ exhausted' = {}

\* connect_db, cursor, ensure_temp_tables: both tables are emptied once,
\* before the loop
Start ==
    /\ pc = "start"
    /\ UNCHANGED <<outside, slept>>
    /\ \/ /\ variant_backup' = {}
          /\ inventory_backup' = {}
          /\ dirty' = TRUE
          /\ pi' = 1
          /\ pc' = "fetch"
          /\ UNCHANGED <<exit_code, fails>>
       \/ /\ Injected
          /\ Crash
          /\ UNCHANGED <<pi, store>>
    /\ UNCHANGED <<batch, remote, locals, history, completed>>

\* STEP 1: GET products/{id}/variants.json
Fetch ==
    /\ pc = "fetch"
    /\ UNCHANGED <<outside, slept>>
    /\ \/ /\ Injected
          /\ Advance
       \/ /\ ListVariants(product_id) = <<>>
          /\ Advance
          /\ UNCHANGED fails
       \/ /\ ListVariants(product_id) # <<>>
          /\ variants' = ListVariants(product_id)
          /\ pre_levels' = [vid \in VariantIds(product_id) |-> GetLevels(ItemOf(vid))]
          /\ idx' = 1
          /\ pc' = "backup_variant"
          /\ UNCHANGED <<pi, original_locations, rows, variant_mapping,
                         inventory_rows, to_remove, fails, deleteLog,
                         createLog, created, conflict, inv_failed, warned,
                         invlog, exhausted>>
    /\ UNCHANGED <<batch, exit_code, remote, store, completed>>

\* where main goes when the backup loop is over
DeletePhaseEntry == IF Len(variants) >= 2 THEN "delete_rest" ELSE "select_rows"

\* (mutation of AfterBackup: the deletes start without the commit)
AfterBackupNoCommit == DeletePhaseEntry

AfterBackup == "commit"

\* the backup loop moves to the next variant or ends
BackupLoop ==
    IF idx < Len(variants)
    THEN idx' = idx + 1 /\ pc' = "backup_variant"
    ELSE idx' = 2 /\ pc' = AfterBackup

BackupRow(v, position) ==
    [id |-> v.id, product_id |-> product_id,
     inventory_item_id |-> v.inventory_item_id, variant_json |-> v,
     position |-> position]

\* PRIMARY KEY (product_id, id)
VariantKeyTaken(row) ==
    \E r \in variant_backup : r.product_id = row.product_id /\ r.id = row.id

\* STEP 2, first half of the loop body: INSERT INTO variant_backup
BackupVariant ==
    /\ pc = "backup_variant"
    /\ UNCHANGED <<outside, slept>>
    /\ LET v == variants[idx]
           row == BackupRow(v, idx - 1)
       IN  \/ /\ ~VariantKeyTaken(row)
              /\ variant_backup' = variant_backup \cup {row}
              /\ dirty' = TRUE
              /\ IF v.inventory_management /\ v.inventory_item_id # 0
                 THEN pc' = "backup_inventory" /\ idx' = idx
                 ELSE BackupLoop
              /\ UNCHANGED <<exit_code, inventory_backup, fails>>
           \/ /\ VariantKeyTaken(row)
              /\ Crash
              /\ UNCHANGED <<store, idx, fails>>
           \/ /\ ~VariantKeyTaken(row)
              /\ Injected
              /\ Crash
              /\ UNCHANGED <<store, idx>>
    /\ UNCHANGED <<batch, pi, remote, variants, original_locations, rows,
                   variant_mapping, inventory_rows, to_remove, history,
                   completed>>

InventoryRows(v, levels) ==
    { [variant_id |-> v.id, inventory_item_id |-> v.inventory_item_id,
       location_id |-> l.location_id, available |-> l.available] : l \in levels }

\* PRIMARY KEY (variant_id, location_id)
InventoryKeyTaken(new) ==
    \E r \in inventory_backup, n \in new :
        r.variant_id = n.variant_id /\ r.location_id = n.location_id

\* (mutation of get_inventory_levels: an error is not noticed)
get_inventory_levels_unguarded(inventory_item_id, failed) ==
    GetLevels(inventory_item_id)

\* get_inventory_levels: the levels of the response, [] when the request or
\* the decoding raised
get_inventory_levels(inventory_item_id, failed) ==
    IF failed THEN {} ELSE GetLevels(inventory_item_id)

\* STEP 2, second half of the loop body: get_inventory_levels (an empty list
\* on any error), one INSERT INTO inventory_backup per level, and the entry of
\* original_locations
BackupInventory ==
    /\ pc = "backup_inventory"
    /\ UNCHANGED <<outside, slept>>
    /\ LET v == variants[idx] IN
       \E failed \in BOOLEAN :
          /\ IF failed
             THEN Injected /\ exhausted' = exhausted \cup {pc}
             ELSE UNCHANGED <<fails, exhausted>>
          /\ LET levels == get_inventory_levels(v.inventory_item_id, failed)
                 new == InventoryRows(v, levels)
             IN  IF InventoryKeyTaken(new)
                 THEN /\ Crash
                      /\ UNCHANGED <<store, idx, original_locations>>
                 ELSE /\ inventory_backup' = inventory_backup \cup new
                      /\ dirty' = TRUE
                      /\ original_locations' =
                            (v.id :> { l.location_id : l \in levels })
                                @@ original_locations
                      /\ BackupLoop
                      /\ UNCHANGED <<exit_code, variant_backup>>
    /\ UNCHANGED <<batch, pi, remote, variants, rows, variant_mapping,
                   inventory_rows, to_remove, runlog, completed>>

\* db.commit()
Commit ==
    /\ pc = "commit"
    /\ UNCHANGED <<outside, slept>>
    /\ \/ /\ dirty' = FALSE
          /\ pc' = DeletePhaseEntry
          /\ UNCHANGED <<exit_code, fails>>
       \/ /\ Injected
          /\ Crash
          /\ UNCHANGED dirty
    /\ UNCHANGED <<batch, pi, remote, variant_backup, inventory_backup,
                   locals, history, completed>>

\* time.sleep(0.6) is the last statement of every try block around a
\* mutating request: it runs when the request returned
AfterSuccess == TRUE

\* the except clause of a mutating request logs (or returns False) without
\* sleeping
AfterError == FALSE

\* DELETE variants/{id}.json inside try/except: the request is sent, and
\* the variant leaves the catalog when the platform accepts it
DeleteRequest(vid) ==
    /\ deleteLog' = Append(deleteLog, vid)
    /\ \/ /\ DeleteAccepted(vid)
          /\ rvariants' = VariantsAfterDelete(vid)
          /\ rlevels' = LevelsAfterDelete(vid)
          /\ slept' = AfterSuccess
          /\ UNCHANGED <<fails, conflict, exhausted>>
       \/ /\ ~DeleteAccepted(vid)
          /\ conflict' = (conflict \/ IsLastVariant(vid))
          /\ slept' = AfterError
          /\ UNCHANGED <<rvariants, rlevels, fails, exhausted>>
       \/ /\ DeleteAccepted(vid)
          /\ Injected
          /\ exhausted' = exhausted \cup {pc}
          /\ slept' = AfterError
          /\ UNCHANGED <<rvariants, rlevels, conflict>>
    /\ UNCHANGED nextId

\* the delete loop moves to the next variant or ends; the except clause of
\* the loop body only logs
DeleteLoop ==
    IF idx < Len(variants)
    THEN idx' = idx + 1 /\ pc' = "delete_rest"
    ELSE idx' = 2 /\ pc' = "select_rows"

\* STEP 3: for v in variants[1:]
DeleteRest ==
    /\ pc = "delete_rest"
    /\ UNCHANGED outside
    /\ DeleteRequest(variants[idx].id)
    /\ DeleteLoop
    /\ UNCHANGED <<batch, pi, exit_code, store, variants, original_locations,
                   rows, variant_mapping, inventory_rows, to_remove,
                   createLog, created, inv_failed, pre_levels, warned,
                   invlog, completed>>

\* (mutation of SelectedRows: the query has no WHERE clause)
SelectedRowsOfAnyProduct(p) ==
    { [id |-> r.id, inventory_item_id |-> r.inventory_item_id,
       variant_json |-> r.variant_json, position |-> r.position] :
        r \in variant_backup }

\* SELECT id, inventory_item_id, variant_json, position FROM variant_backup
\* WHERE product_id = %s
SelectedRows(p) ==
    { [id |-> r.id, inventory_item_id |-> r.inventory_item_id,
       variant_json |-> r.variant_json, position |-> r.position] :
        r \in { x \in variant_backup : x.product_id = p } }

\* ORDER BY position: any order of the rows that is ascending in position
OrderedByPosition(S) ==
    { s \in [1..Cardinality(S) -> S] :
        /\ \A i, j \in DOMAIN s : i < j => s[i] # s[j]
        /\ \A i, j \in DOMAIN s : i < j => s[i].position <= s[j].position }

\* STEP 4, the query: rows = cur.fetchall(); variant_mapping = {}
SelectRows ==
    /\ pc = "select_rows"
    /\ UNCHANGED <<outside, slept>>
    /\ \/ /\ rows' \in OrderedByPosition(SelectedRows(product_id))
          /\ variant_mapping' = <<>>
          /\ idx' = 2
          /\ pc' = IF Len(rows') >= 2 THEN "recreate_rest" ELSE "delete_first"
          /\ UNCHANGED <<exit_code, fails>>
       \/ /\ Injected
          /\ Crash
          /\ UNCHANGED <<rows, variant_mapping, idx>>
    /\ UNCHANGED <<batch, pi, remote, store, variants, original_locations,
                   inventory_rows, to_remove, history, completed>>

\* the creation payload: the backed-up attributes without the remote-assigned
\* fields (and without the title)
Payload(v) ==
    [option1 |-> v.option1, price |-> v.price,
     inventory_management |-> v.inventory_management]

\* (mutation of MappingAfterCreate: the old inventory item is recorded)
MappingAfterCreateOldItem(row, new_inventory_item_id) ==
    MapSet(variant_mapping, row.id, row.inventory_item_id)

\* variant_mapping[old_variant_id] = new_inventory_item_id
MappingAfterCreate(row, new_inventory_item_id) ==
    MapSet(variant_mapping, row.id, new_inventory_item_id)

\* the title filter, then POST products/{id}/variants.json inside try/except;
\* on success variant_mapping[old_variant_id] = new_inventory_item_id
Recreate(row) ==
    LET v == row.variant_json IN
    IF Excluded(v)
    THEN UNCHANGED <<remote, variant_mapping, createLog, created, fails,
                     exhausted, slept>>
    ELSE /\ createLog' = Append(createLog, row.id)
         /\ \/ /\ CreateAccepted(product_id, Payload(v))
               /\ rvariants' = VariantsAfterCreate(product_id, Payload(v))
               /\ rlevels' = LevelsAfterCreate
               /\ nextId' = nextId + 2
               /\ LET new_inventory_item_id == NewVariant(Payload(v)).inventory_item_id
                  IN  /\ variant_mapping' = MappingAfterCreate(row, new_inventory_item_id)
                      /\ created' = created \cup
                            {[old |-> row.id, item |-> new_inventory_item_id]}
               /\ slept' = AfterSuccess
               /\ UNCHANGED <<fails, exhausted>>
            \/ /\ ~CreateAccepted(product_id, Payload(v))
               /\ slept' = AfterError
               /\ UNCHANGED <<remote, variant_mapping, created, fails,
                              exhausted>>
            \/ /\ CreateAccepted(product_id, Payload(v))
               /\ Injected
               /\ exhausted' = exhausted \cup {pc}
               /\ slept' = AfterError
               /\ UNCHANGED <<remote, variant_mapping, created>>

\* STEP 4, the loop: for row in rows[1:]
RecreateRest ==
    /\ pc = "recreate_rest"
    /\ UNCHANGED outside
    /\ Recreate(rows[idx])
    /\ IF idx < Len(rows)
       THEN idx' = idx + 1 /\ pc' = "recreate_rest"
       ELSE idx' = 1 /\ pc' = "delete_first"
    /\ UNCHANGED <<batch, pi, exit_code, store, variants, original_locations,
                   rows, inventory_rows, to_remove, deleteLog, conflict,
                   inv_failed, pre_levels, warned, invlog, completed>>

\* (mutation of DeleteFirst: a survivor that could not be deleted is not
\* recreated)
DeleteFirstThenSkip ==
    /\ pc = "delete_first"
    /\ UNCHANGED outside
    /\ DeleteRequest(variants[1].id)
    /\ pc' = IF \E k \in DOMAIN rvariants'[batch[pi]] :
                    rvariants'[batch[pi]][k].id = variants[1].id
             THEN "select_inventory"
             ELSE "recreate_first"
    /\ UNCHANGED <<batch, pi, exit_code, store, locals, createLog, created,
                   inv_failed, pre_levels, warned, invlog, completed>>

\* STEP 5: first_variant = variants[0]; DELETE
DeleteFirst ==
    /\ pc = "delete_first"
    /\ UNCHANGED outside
    /\ DeleteRequest(variants[1].id)
    /\ pc' = "recreate_first"
    /\ UNCHANGED <<batch, pi, exit_code, store, locals, createLog, created,
                   inv_failed, pre_levels, warned, invlog, completed>>

\* STEP 6: first_row = rows[0]; filter and POST
RecreateFirst ==
    /\ pc = "recreate_first"
    /\ UNCHANGED outside
    /\ Recreate(rows[1])
    /\ pc' = "select_inventory"
    /\ UNCHANGED <<batch, pi, exit_code, store, variants, idx,
                   original_locations, rows, inventory_rows, to_remove,
                   deleteLog, conflict, inv_failed, pre_levels, warned,
                   invlog, completed>>

\* SELECT variant_id, location_id, available FROM inventory_backup WHERE
\* variant_id IN (SELECT id FROM variant_backup WHERE product_id = %s)
SelectedInventory(p) ==
    { [variant_id |-> r.variant_id, location_id |-> r.location_id,
       available |-> r.available] :
        r \in { x \in inventory_backup :
                  x.variant_id \in { y.id : y \in SelectedRows(p) } } }

\* where main goes when the restore loop is over: the cleanup loop over
\* variant_mapping.items(), or the end of the product
CleanupEntry == IF variant_mapping = <<>> THEN "complete" ELSE "cleanup_get"

\* STEP 7, the query: inventory_rows = cur.fetchall()
SelectInventory ==
    /\ pc = "select_inventory"
    /\ UNCHANGED <<outside, slept>>
    /\ \/ /\ inventory_rows' = SelectedInventory(product_id)
          /\ idx' = 1
          /\ pc' = IF inventory_rows' = {} THEN CleanupEntry ELSE "restore"
          /\ UNCHANGED <<exit_code, fails>>
       \/ /\ Injected
          /\ Crash
          /\ UNCHANGED <<inventory_rows, idx>>
    /\ UNCHANGED <<batch, pi, remote, store, variants, original_locations,
                   rows, variant_mapping, to_remove, history, completed>>

\* (mutation of RestoreItem: an absent variant gets the first item of the map)
RestoreItemFallback(old_variant_id) ==
    IF old_variant_id \in MapKeys(variant_mapping)
    THEN MapVal(variant_mapping, old_variant_id)
    ELSE IF variant_mapping # <<>> THEN variant_mapping[1][2] ELSE 0

\* new_inventory_item_id = variant_mapping.get(old_variant_id); None is 0
RestoreItem(old_variant_id) ==
    IF old_variant_id \in MapKeys(variant_mapping)
    THEN MapVal(variant_mapping, old_variant_id)
    ELSE 0

\* the warning of the else branch: the fields its text interpolates
Warning(r) == [variant_id |-> r.variant_id]

\* STEP 7, the loop body for one row (the query has no ORDER BY): the set
\* request when the variant is in variant_mapping, the warning otherwise
Restore ==
    /\ pc = "restore"
    /\ UNCHANGED outside
    /\ \E r \in inventory_rows :
          /\ inventory_rows' = inventory_rows \ {r}
          /\ LET item == RestoreItem(r.variant_id) IN
             IF item # 0
             THEN /\ setLog' = setLog \cup
                        {[row |-> r, item |-> item,
                          location_id |-> r.location_id,
                          available |-> r.available]}
                  /\ \/ /\ SetAccepted(item)
                        /\ rlevels' = LevelsAfterSet(item, r.location_id, r.available)
                        /\ slept' = AfterSuccess
                        /\ UNCHANGED <<fails, inv_failed, exhausted>>
                     \/ /\ ~SetAccepted(item)
                        /\ inv_failed' = inv_failed \cup {item}
                        /\ slept' = AfterError
                        /\ UNCHANGED <<rlevels, fails, exhausted>>
                     \/ /\ SetAccepted(item)
                        /\ Injected
                        /\ exhausted' = exhausted \cup {pc}
                        /\ inv_failed' = inv_failed \cup {item}
                        /\ slept' = AfterError
                        /\ UNCHANGED rlevels
                  /\ UNCHANGED warned
             ELSE /\ warned' = warned \cup {[row |-> r, text |-> Warning(r)]}
                  /\ UNCHANGED <<rlevels, fails, inv_failed, setLog, exhausted,
                                 slept>>
          /\ pc' = IF inventory_rows' = {} THEN CleanupEntry ELSE "restore"
    /\ UNCHANGED <<batch, pi, exit_code, rvariants, nextId, store, variants,
                   idx, original_locations, rows, variant_mapping, to_remove,
                   deleteLog, createLog, created, conflict, pre_levels,
                   getLog, removeLog, completed>>

\* original_locs = set(original_locations.get(old_variant_id, []))
OriginalLocs(old) ==
    IF old \in DOMAIN original_locations THEN original_locations[old] ELSE {}

\* (mutation of ExtraLocations: no location is taken for extra)
ExtraLocationsNone(old, levels) == {}

\* the locations of current_levels that are not in original_locs
ExtraLocations(old, levels) ==
    { l.location_id : l \in levels } \ OriginalLocs(old)

\* the cleanup loop moves to the next entry of variant_mapping or ends
CleanupLoop ==
    IF idx < Len(variant_mapping)
    THEN idx' = idx + 1 /\ pc' = "cleanup_get"
    ELSE idx' = idx /\ pc' = "complete"

\* STEP 8, per entry of variant_mapping: get_inventory_levels of the new item
CleanupGet ==
    /\ pc = "cleanup_get"
    /\ UNCHANGED <<outside, slept>>
    /\ LET old == variant_mapping[idx][1]
           item == variant_mapping[idx][2]
       IN  \E failed \in BOOLEAN :
              /\ getLog' = getLog \cup {item}
              /\ IF failed
                 THEN /\ Injected
                      /\ exhausted' = exhausted \cup {pc}
                      /\ inv_failed' = inv_failed \cup {item}
                 ELSE UNCHANGED <<fails, inv_failed, exhausted>>
              /\ to_remove' =
                    ExtraLocations(old, IF failed THEN {} ELSE GetLevels(item))
              /\ IF to_remove' = {}
                 THEN CleanupLoop
                 ELSE idx' = idx /\ pc' = "cleanup_remove"
    /\ UNCHANGED <<batch, pi, exit_code, remote, store, variants,
                   original_locations, rows, variant_mapping, inventory_rows,
                   deleteLog, createLog, created, conflict, pre_levels,
                   warned, setLog, removeLog, completed>>

\* STEP 8, per extra location: remove_inventory_level
CleanupRemove ==
    /\ pc = "cleanup_remove"
    /\ UNCHANGED outside
    /\ LET item == variant_mapping[idx][2] IN
       \E loc \in to_remove :
          /\ to_remove' = to_remove \ {loc}
          /\ removeLog' = removeLog \cup {[item |-> item, location_id |-> loc]}
          /\ \/ /\ RemoveAccepted(item, loc)
                /\ rlevels' = LevelsAfterRemove(item, loc)
                /\ slept' = AfterSuccess
                /\ UNCHANGED <<fails, inv_failed, exhausted>>
             \/ /\ ~RemoveAccepted(item, loc)
                /\ inv_failed' = inv_failed \cup {item}
                /\ slept' = AfterError
                /\ UNCHANGED <<rlevels, fails, exhausted>>
             \/ /\ RemoveAccepted(item, loc)
                /\ Injected
                /\ exhausted' = exhausted \cup {pc}
                /\ inv_failed' = inv_failed \cup {item}
                /\ slept' = AfterError
                /\ UNCHANGED rlevels
          /\ IF to_remove' = {}
             THEN CleanupLoop
             ELSE idx' = idx /\ pc' = "cleanup_remove"
    /\ UNCHANGED <<batch, pi, exit_code, rvariants, nextId, store, variants,
                   original_locations, rows, variant_mapping, inventory_rows,
                   deleteLog, createLog, created, conflict, pre_levels,
                   warned, setLog, getLog, completed>>

\* the product's last log line, then the next product
Complete ==
    /\ pc = "complete"
    /\ UNCHANGED <<outside, slept>>
    /\ completed' = Append(completed, product_id)
    /\ Advance
    /\ UNCHANGED <<batch, exit_code, remote, store, fails>>

\* cur.close(); db.close(); the process ends with exit code 0
Close ==
    /\ pc = "close"
    /\ UNCHANGED <<outside, slept>>
    /\ pc' = "done"
    /\ exit_code' = 0
    /\ UNCHANGED <<batch, pi, remote, store, locals, fails, history, completed>>

\* the line main logs after the loop, the last output of a batch: a fixed
\* text, no field computed from the run
FinalLog == [text |-> "Processo completato per tutti i prodotti!"]

Next ==
    \/ Start
    \/ Fetch
    \/ BackupVariant
    \/ BackupInventory
    \/ Commit
    \/ DeleteRest
    \/ SelectRows
    \/ RecreateRest
    \/ DeleteFirst
    \/ RecreateFirst
    \/ SelectInventory
    \/ Restore
    \/ CleanupGet
    \/ CleanupRemove
    \/ Complete
    \/ Close

Spec == Init /\ [][Next]_vars

\* the process runs on one thread and every request it sends is answered:
\* whenever main has a next statement, it is eventually executed
SpecFair == Spec /\ WF_vars(Next)

\* ------------------------------------------ the retry loop of one request
\* safe_request of reset_variants.py and ShopifyClient._request, each running
\* one remote operation against a server that answers every request with any
\* response or with a connection failure.
max_retries == 5

\* (mutation of RETRYABLE_STATUS_CODES: 404 is repeated too)
RetryableWith404 == {404, 429, 502, 503, 504}

RETRYABLE_STATUS_CODES == {429, 502, 503, 504}

\* min(2 ** attempt, 32)
BackoffCap == 32

\* the default of response.headers.get("Retry-After", "2")
DefaultRetryAfter == <<"2">>

StatusCodes == {200, 400, 404, 429, 500, 502, 503, 504}

\* header values: seconds below and above the cap, and an HTTP date
RetryAfterValues == { <<"7">>, <<"4", "0">>, <<"W", "e", "d">> }

\* the headers of a response: with or without Retry-After
Headers == { <<>> } \cup { ("Retry-After" :> h) : h \in RetryAfterValues }

\* what one request can end in: a response, or requests' ConnectionError
\* (status_code 0); Retry-After is drawn for the 429 responses
Answers ==
    { [kind |-> "response", status_code |-> 429, headers |-> h] : h \in Headers }
    \cup { [kind |-> "response", status_code |-> sc, headers |-> <<>>] :
             sc \in StatusCodes \ {429} }
    \cup { [kind |-> "ConnectionError", status_code |-> 0, headers |-> <<>>] }

\* headers.get(name, default)
HeaderGet(headers, name, default) ==
    IF name \in DOMAIN headers THEN headers[name] ELSE default

DigitValue(c) ==
    CASE c = "0" -> 0 [] c = "1" -> 1 [] c = "2" -> 2 [] c = "3" -> 3
      [] c = "4" -> 4 [] c = "5" -> 5 [] c = "6" -> 6 [] c = "7" -> 7
      [] c = "8" -> 8 [] c = "9" -> 9

\* float(s) returns: s is a run of decimal digits (ValueError otherwise)
FloatParses(s) ==
    /\ s # <<>>
    /\ \A i \in DOMAIN s :
          s[i] \in {"0", "1", "2", "3", "4", "5", "6", "7", "8", "9"}

RECURSIVE Float(_)
Float(s) ==
    IF s = <<>>
    THEN 0
    ELSE 10 * Float(SubSeq(s, 1, Len(s) - 1)) + DigitValue(s[Len(s)])

Min(a, b) == IF a <= b THEN a ELSE b

\* ShopifyClient._calculate_wait_time
calculate_wait_time(response, k) ==
    LET retry_after == HeaderGet(response.headers, "Retry-After", DefaultRetryAfter)
    IN  IF response.status_code = 429 /\ FloatParses(retry_after)
        THEN Float(retry_after)
        ELSE Min(2 ^ k, BackoffCap)

\* safe_request: wait = 2 ** attempt
safe_request_wait(response, k) == 2 ^ k

\* one request was sent and answered; wait is the sleep that followed it,
\* -1 when there was none
Sent(response, wait) ==
    trail' = Append(trail, [response |-> response, wait |-> wait])

\* (mutation of Continue: the loop runs once more)
ContinueOnceMore ==
    IF attempt + 1 <= max_retries
    THEN attempt' = attempt + 1 /\ outcome' = "running"
    ELSE attempt' = attempt /\ outcome' = "raised"

\* continue: the next value of range(max_retries), or the raise after the loop
Continue ==
    IF attempt + 1 < max_retries
    THEN attempt' = attempt + 1 /\ outcome' = "running"
    ELSE attempt' = attempt /\ outcome' = "raised"

\* return res / an exception leaves the function
Leave(how) == attempt' = attempt /\ outcome' = how

\* one iteration of the loop of safe_request
SafeRequestAttempt ==
    /\ caller = "safe_request"
    /\ outcome = "running"
    /\ \E res \in Answers :
          IF res.kind = "ConnectionError"
          THEN Sent(res, -1) /\ Leave("raised")
          ELSE IF res.status_code = 429
          THEN Sent(res, safe_request_wait(res, attempt)) /\ Continue
          ELSE IF res.status_code >= 400
          THEN Sent(res, -1) /\ Leave("raised")
          ELSE Sent(res, -1) /\ Leave("returned")
    /\ UNCHANGED <<mainvars, caller, concurrent, config, syncvars>>

\* one iteration of the loop of ShopifyClient._request
ClientRequestAttempt ==
    /\ caller = "_request"
    /\ outcome = "running"
    /\ \E res \in Answers :
          IF res.kind = "ConnectionError"
          THEN Sent(res, 2 ^ attempt) /\ Continue
          ELSE IF res.status_code \in RETRYABLE_STATUS_CODES
          THEN Sent(res, calculate_wait_time(res, attempt)) /\ Continue
          ELSE IF res.status_code >= 400
          THEN Sent(res, -1) /\ Leave("raised")
          ELSE Sent(res, -1) /\ Leave("returned")
    /\ UNCHANGED <<mainvars, caller, concurrent, config, syncvars>>

\* main is not running
MainIdle ==
    /\ batch = <<"P1">>
    /\ rvariants = [p \in Products |-> <<>>]
    /\ rlevels = EmptyMap
    /\ nextId = 1
    /\ pi = 0
    /\ pc = "request"
    /\ exit_code = -1
    /\ variant_backup = {}
    /\ inventory_backup = {}
    /\ dirty = FALSE
    /\ variants = <<>>
    /\ idx = 0
    /\ original_locations = EmptyMap
    /\ rows = <<>>
    /\ variant_mapping = <<>>
    /\ inventory_rows = {}
    /\ to_remove = {}
    /\ fails = 0
    /\ deleteLog = <<>>
    /\ createLog = <<>>
    /\ created = {}
    /\ conflict = FALSE
    /\ inv_failed = {}
    /\ pre_levels = EmptyMap
    /\ warned = {}
    /\ setLog = {}
    /\ getLog = {}
    /\ removeLog = {}
    /\ exhausted = {}
    /\ completed = <<>>
    /\ slept = TRUE

\* a call of either function
InitRetry ==
    /\ caller \in {"safe_request", "_request"}
    /\ attempt = 0
    /\ outcome = "running"
    /\ trail = <<>>
    /\ MainIdle
    /\ ConcurrentIdle
    /\ ConfigIdle
    /\ SyncIdle

NextRetry ==
    \/ SafeRequestAttempt
    \/ ClientRequestAttempt

SpecRetry == InitRetry /\ [][NextRetry]_vars
\* ------------------------------------ two runs on the same store server
\* two processes running main at the same time, each on its own product and
\* on its own connection (connect_db); the steps are the statements each
\* sends to the store: ensure_temp_tables, the INSERTs of STEP 2, the SELECTs
\* of STEP 4 and STEP 7.
Runs == {"A", "B"}

ProductOf(run) == IF run = "A" THEN "P1" ELSE "P2"

\* (mutation of TableSpace: permanent tables, one namespace for the server)
TableSpaceShared(run) == "server"

\* CREATE TEMPORARY TABLE: the table belongs to the connection that created
\* it, and every statement of a run names the tables of its own connection
TableSpace(run) == run

EmptyTables == [variant_backup |-> {}, inventory_backup |-> {}]

\* the variant row and the inventory row a run writes for its k-th variant
RunVariantRow(run, k) ==
    [id |-> InitialId(ProductOf(run), k), product_id |-> ProductOf(run),
     position |-> k - 1]

RunInventoryRow(run, k) ==
    [variant_id |-> InitialId(ProductOf(run), k), location_id |-> DefaultLocation,
     available |-> k]

InitConcurrent ==
    /\ sessions = [t \in Runs \cup {"server"} |-> EmptyTables]
    /\ runs \in [Runs -> { [pc |-> "ensure", idx |-> 1, n |-> n,
                           written_variants |-> {}, written_inventory |-> {},
                           seen_variants |-> {}, seen_inventory |-> {}] :
                             n \in 1..MaxVariants }]
    /\ MainIdle
    /\ RetryIdle
    /\ ConfigIdle
    /\ SyncIdle

\* ensure_temp_tables: CREATE TEMPORARY TABLE IF NOT EXISTS, DELETE FROM, for
\* both tables
EnsureTempTables(run) ==
    /\ runs[run].pc = "ensure"
    /\ sessions' = [sessions EXCEPT ![TableSpace(run)] = EmptyTables]
    /\ runs' = [runs EXCEPT ![run].pc = "insert_variant"]
    /\ UNCHANGED <<mainvars, retry, config, syncvars>>

\* INSERT INTO variant_backup
InsertVariant(run) ==
    /\ runs[run].pc = "insert_variant"
    /\ LET row == RunVariantRow(run, runs[run].idx) IN
       /\ sessions' = [sessions EXCEPT ![TableSpace(run)].variant_backup = @ \cup {row}]
       /\ runs' = [runs EXCEPT ![run].pc = "insert_inventory",
                               ![run].written_variants = @ \cup {row}]
    /\ UNCHANGED <<mainvars, retry, config, syncvars>>

\* INSERT INTO inventory_backup, then the next variant or the end of STEP 2
InsertInventory(run) ==
    /\ runs[run].pc = "insert_inventory"
    /\ LET row == RunInventoryRow(run, runs[run].idx) IN
       /\ sessions' = [sessions EXCEPT ![TableSpace(run)].inventory_backup = @ \cup {row}]
       /\ runs' = [runs EXCEPT ![run].written_inventory = @ \cup {row},
                               ![run].idx = IF @ < runs[run].n THEN @ + 1 ELSE @,
                               ![run].pc = IF runs[run].idx < runs[run].n
                                           THEN "insert_variant"
                                           ELSE "select_rows"]
    /\ UNCHANGED <<mainvars, retry, config, syncvars>>

\* SELECT ... FROM variant_backup WHERE product_id = %s
SelectRunRows(run) ==
    /\ runs[run].pc = "select_rows"
    /\ runs' = [runs EXCEPT ![run].seen_variants =
                                { r \in sessions[TableSpace(run)].variant_backup :
                                    r.product_id = ProductOf(run) },
                            ![run].pc = "select_inventory"]
    /\ UNCHANGED <<mainvars, retry, config, syncvars, sessions>>

\* SELECT ... FROM inventory_backup WHERE variant_id IN (SELECT id FROM
\* variant_backup WHERE product_id = %s)
SelectRunInventory(run) ==
    /\ runs[run].pc = "select_inventory"
    /\ runs' = [runs EXCEPT ![run].seen_inventory =
                                { r \in sessions[TableSpace(run)].inventory_backup :
                                    \E v \in sessions[TableSpace(run)].variant_backup :
                                        /\ v.product_id = ProductOf(run)
                                        /\ v.id = r.variant_id },
                            ![run].pc = "done"]
    /\ UNCHANGED <<mainvars, retry, config, syncvars, sessions>>

NextConcurrent ==
    \/ \E run \in Runs : EnsureTempTables(run)
    \/ \E run \in Runs : InsertVariant(run)
    \/ \E run \in Runs : InsertInventory(run)
    \/ \E run \in Runs : SelectRunRows(run)
    \/ \E run \in Runs : SelectRunInventory(run)

SpecConcurrent == InitConcurrent /\ [][NextConcurrent]_vars

\* ------------------------------------------------- configuration at start
\* the environment of the process: each variable is undefined or defined with
\* a string value (a sequence of characters)
Mandatory ==
    <<"SHOPIFY_DOMAIN", "SHOPIFY_TOKEN", "DB_HOST", "DB_USER", "DB_PASS", "DB_NAME">>

EnvNames == { Mandatory[i] : i \in DOMAIN Mandatory } \cup {"PRODUCT_IDS"}

Unset == [defined |-> FALSE, value |-> <<>>]

EnvValues(name) ==
    {Unset, [defined |-> TRUE, value |-> <<>>], [defined |-> TRUE, value |-> <<"7">>]}
        \cup (IF name = "PRODUCT_IDS"
              THEN {[defined |-> TRUE, value |-> <<",">>]}
              ELSE {})

\* os.getenv(name): None when the variable is not defined
Getenv(name) == env[name]

\* (mutation of Truthy: only an undefined variable counts as missing)
TruthyDefined(x) == x.defined

\* the truth value of os.getenv's result: None and "" are false
Truthy(x) == x.defined /\ Len(x.value) > 0

\* Config.from_env: the list of the missing variables, in the order of the
\* checks
Errors ==
    SelectSeq(Mandatory, LAMBDA name : ~Truthy(Getenv(name)))
        \o (IF Truthy(Getenv("PRODUCT_IDS"))
            THEN <<>>
            ELSE IF require_product_ids THEN <<"PRODUCT_IDS">> ELSE <<>>)

InitConfig ==
    /\ env \in [EnvNames -> UNION { EnvValues(name) : name \in EnvNames }]
    /\ \A name \in EnvNames : env[name] \in EnvValues(name)
    /\ require_product_ids \in BOOLEAN
    /\ entry \in {"from_env", "main"}
    /\ entry = "main" => require_product_ids = FALSE
    /\ config_result = "pending"
    /\ MainIdle
    /\ RetryIdle
    /\ ConcurrentIdle
    /\ SyncIdle

\* Config.from_env(require_product_ids): sys.exit(1) when errors is not
\* empty, the Config instance otherwise
FromEnv ==
    /\ entry = "from_env"
    /\ config_result = "pending"
    /\ config_result' = IF Errors # <<>> THEN "exit_1" ELSE "Config"
    /\ UNCHANGED <<mainvars, retry, concurrent, syncvars, env, require_product_ids, entry>>

\* main, before the store is touched: PRODUCT_IDS is read and checked
MainPrologue ==
    /\ entry = "main"
    /\ config_result = "pending"
    /\ config_result' = IF ~Truthy(Getenv("PRODUCT_IDS")) THEN "exit_1" ELSE "connect_db"
    /\ UNCHANGED <<mainvars, retry, concurrent, syncvars, env, require_product_ids, entry>>

\* main: db = connect_db(), the first store operation
ConnectDb ==
    /\ entry = "main"
    /\ config_result = "connect_db"
    /\ config_result' = "connected"
    /\ UNCHANGED <<mainvars, retry, concurrent, syncvars, env, require_product_ids, entry>>

NextConfig ==
    \/ FromEnv
    \/ MainPrologue
    \/ ConnectDb

SpecConfig == InitConfig /\ [][NextConfig]_vars

\* ------------------------------------------------- ShopifyClient.graphql
\* one call of graphql: the POST is answered with any HTTP response, a
\* response 200 carrying a JSON result with data, with errors, or with both.
Throttled == [message |-> "Throttled", extensions |-> [code |-> "THROTTLED"]]

ThrottledWithCost ==
    [message |-> "Throttled",
     extensions |-> [code |-> "THROTTLED", cost |-> [requestedQueryCost |-> 500]]]

OtherError == [message |-> "Field 'x' doesn't exist"]

ErrorLists ==
    { <<Throttled>>, <<ThrottledWithCost>>, <<OtherError>>, <<OtherError, Throttled>> }

Results ==
    { [data |-> "products"] }
        \cup { [errors |-> e] : e \in ErrorLists }
        \cup { [data |-> "products", errors |-> <<Throttled>>] }

GraphqlAnswers ==
    { a \in Answers : a.status_code # 200 }
        \cup { [kind |-> "response", status_code |-> 200, headers |-> <<>>, result |-> r] :
                 r \in Results }

\* "THROTTLED" in str(err.get("extensions", {}))
IsThrottled(err) ==
    /\ "extensions" \in DOMAIN err
    /\ "code" \in DOMAIN err.extensions
    /\ err.extensions.code = "THROTTLED"

\* err.get("extensions", {}).get("cost", {}).get("requestedQueryCost", 10)
RequestedQueryCost(err) ==
    IF "extensions" \in DOMAIN err /\ "cost" \in DOMAIN err.extensions
       /\ "requestedQueryCost" \in DOMAIN err.extensions.cost
    THEN err.extensions.cost.requestedQueryCost
    ELSE 10

Max(a, b) == IF a >= b THEN a ELSE b

\* time.sleep(max(cost / 50, 2)), in whole seconds (the costs drawn are 10 and
\* multiples of 50)
ThrottleSleep(err) == Max(RequestedQueryCost(err) \div 50, 2)

\* for err in errors: the sleeps of the throttled errors; the continue of the
\* body continues this loop over the errors
RECURSIVE ErrorLoopSleep(_)
ErrorLoopSleep(errors) ==
    IF errors = <<>>
    THEN 0
    ELSE (IF IsThrottled(Head(errors)) THEN ThrottleSleep(Head(errors)) ELSE 0)
            + ErrorLoopSleep(Tail(errors))

\* the statement after the loop over the errors: raise Exception("GraphQL
\* errors: ...")
AfterErrorLoop(errors) == Leave("raised")

\* one iteration of the loop of ShopifyClient.graphql
GraphqlAttempt ==
    /\ caller = "graphql"
    /\ outcome = "running"
    /\ \E res \in GraphqlAnswers :
          IF res.kind = "ConnectionError"
          THEN Sent(res, 2 ^ attempt) /\ Continue
          ELSE IF res.status_code \in RETRYABLE_STATUS_CODES
          THEN Sent(res, calculate_wait_time(res, attempt)) /\ Continue
          ELSE IF res.status_code >= 400
          THEN Sent(res, -1) /\ Leave("raised")
          ELSE IF "errors" \in DOMAIN res.result
          THEN /\ Sent(res, ErrorLoopSleep(res.result.errors))
               /\ AfterErrorLoop(res.result.errors)
          ELSE Sent(res, -1) /\ Leave("returned")
    /\ UNCHANGED <<mainvars, caller, concurrent, config, syncvars>>

InitGraphql ==
    /\ caller = "graphql"
    /\ attempt = 0
    /\ outcome = "running"
    /\ trail = <<>>
    /\ MainIdle
    /\ ConcurrentIdle
    /\ ConfigIdle
    /\ SyncIdle

NextGraphql == GraphqlAttempt

SpecGraphql == InitGraphql /\ [][NextGraphql]_vars

\* ------------------------------------------- shopify_to_mysql.sync_products
\* one run of sync_products against a remote catalog of products and a store
\* that already holds mirror rows of earlier runs.
VALID_TAGS ==
    {"sneakers personalizzate", "scarpe personalizzate", "ciabatte personalizzate",
     "stivali personalizzati"}

\* the tags strings drawn, as the lists tags_raw.split(",") gives
TagsChoices == { <<"Borse", " Scarpe Personalizzate">>, <<"Borse">>, <<"">> }

\* t.strip().lower() on the tags drawn
StripLower(t) ==
    CASE t = " Scarpe Personalizzate" -> "scarpe personalizzate"
      [] t = "Borse" -> "borse"
      [] OTHER -> t

is_shoe(product, valid_tags) ==
    \E i \in DOMAIN product.tags : StripLower(product.tags[i]) \in valid_tags

\* the price strings of the remote; None for a missing compare_at_price
PriceStrings == {"10.00", "10.0", "12.50"}
CompareStrings == {"None", "15.00"}

\* Decimal(x or "0"), in hundredths
DecimalOr0(x) ==
    CASE x = "10.00" -> 1000
      [] x = "10.0" -> 1000
      [] x = "12.50" -> 1250
      [] x = "15.00" -> 1500
      [] OTHER -> 0

\* the variant identifier of the product at a position of the catalog; 103 is
\* an identifier no product of the catalog has
VariantOf(i) == 100 + i
Vanished == 103

ShopVariants(i) ==
    { <<>> } \cup { <<[id |-> VariantOf(i), price |-> pr, compare_at_price |-> c]>> :
                      pr \in PriceStrings, c \in CompareStrings }

ShopProducts(i) ==
    { [id |-> i, status |-> st, tags |-> t, variants |-> vs] :
        st \in {"active", "draft"}, t \in TagsChoices, vs \in ShopVariants(i) }

\* DECIMAL(10,2) columns of a mirror row, in hundredths
MirrorRows == { [Price |-> pr, Compare_AT_Price |-> c] : pr \in {1000, 1250}, c \in {0, 1500} }

Mirrors ==
    UNION { [ids -> MirrorRows] : ids \in SUBSET {VariantOf(1), VariantOf(2), Vanished} }

\* the keyword arguments of the call db.upsert_product(...) in sync_products
UpsertCallKeywords ==
    {"variant_id", "variant_title", "sku", "barcode", "product_id", "product_title",
     "product_handle", "vendor", "price", "compare_at_price", "inventory_item_id",
     "stock_magazzino", "tags", "collections", "body_html", "product_images",
     "mf_customization_description", "mf_shoe_details", "mf_customization_details",
     "mf_o_description", "mf_handling", "mf_google_custom_product",
     "mf_google_age_group", "mf_google_condition", "mf_google_gender",
     "mf_google_mpn", "mf_google_custom_label_0", "mf_google_custom_label_1",
     "mf_google_custom_label_2", "mf_google_custom_label_3",
     "mf_google_custom_label_4", "mf_google_size_system", "mf_google_size_type"}

\* the parameters of Database.upsert_product
UpsertParameters ==
    {"variant_id", "variant_title", "sku", "barcode", "product_id", "product_title",
     "product_handle", "vendor", "price", "compare_at_price", "inventory_item_id",
     "stock_magazzino", "tags", "collections"}

\* a call with a keyword the function does not declare raises TypeError
CallAccepted(keywords, parameters) == keywords \subseteq parameters

\* client.get_products(status="active")
GetProducts(status) == SelectSeq(shop, LAMBDA product : product.status = status)

\* (mutation of ToDelete: nothing is removed)
ToDeleteNothing(existing_ids, seen_ids) == {}

\* to_delete = existing_ids - seen_ids
ToDelete(existing_ids, seen_ids) == existing_ids \ seen_ids

\* (mutation of PricesChanged: only the price is compared)
PricesChangedPriceOnly(old_price, old_cmp, price, compare) == old_price # price

\* old_price != price or old_cmp != compare
PricesChanged(old_price, old_cmp, price, compare) ==
    old_price # price \/ old_cmp # compare

InitSync ==
    /\ shop \in UNION { { <<>> }, { <<a>> : a \in ShopProducts(1) },
                       { <<a, b>> : a \in { q \in ShopProducts(1) : q.status = "active" },
                                    b \in ShopProducts(2) } }
    /\ \E m \in Mirrors :
          tables = [online_products |-> m, price_history |-> <<>>]
    /\ sync = [pc |-> "start", exit_code |-> -1, before |-> DOMAIN tables.online_products,
               existing_ids |-> {}, seen_ids |-> {}, products_to_sync |-> <<>>,
               p |-> 0, v |-> 0, deleted |-> {}]
    /\ MainIdle
    /\ RetryIdle
    /\ ConcurrentIdle
    /\ ConfigIdle

\* an exception leaves sync_products: main logs it and calls sys.exit(1)
SyncCrash == sync' = [sync EXCEPT !.pc = "crashed", !.exit_code = 1]

\* db.init_sync_tables(); existing_ids = db.get_existing_variant_ids()
SyncStart ==
    /\ sync.pc = "start"
    /\ sync' = [sync EXCEPT !.pc = "collect",
                            !.existing_ids = DOMAIN tables.online_products]
    /\ UNCHANGED <<mainvars, retry, concurrent, config, shop, tables>>

\* the reads of the remote before the upserts: the collections, the location,
\* the products with the tag filter, the stock; a failed read raises
Collect ==
    /\ sync.pc = "collect"
    /\ \/ sync' = [sync EXCEPT !.pc = "product", !.p = 1,
                               !.products_to_sync =
                                   SelectSeq(GetProducts("active"),
                                             LAMBDA product : is_shoe(product, VALID_TAGS))]
       \/ SyncCrash
    /\ UNCHANGED <<mainvars, retry, concurrent, config, shop, tables>>

\* for product in products_to_sync: the next product, or the end of the loop
SyncProduct ==
    /\ sync.pc = "product"
    /\ IF sync.p > Len(sync.products_to_sync)
       THEN sync' = [sync EXCEPT !.pc = "delete"]
       ELSE sync' = [sync EXCEPT !.v = 1,
                                 !.pc = IF sync.products_to_sync[sync.p].variants = <<>>
                                        THEN "commit"
                                        ELSE "variant"]
    /\ UNCHANGED <<mainvars, retry, concurrent, config, shop, tables>>

\* for variant in product["variants"], up to the upsert: seen_ids.add(vid),
\* db.get_variant_prices(vid), db.insert_price_history when the prices changed
VariantPrices ==
    /\ sync.pc = "variant"
    /\ LET variant == sync.products_to_sync[sync.p].variants[sync.v]
           vid == variant.id
           price == DecimalOr0(variant.price)
           compare == DecimalOr0(variant.compare_at_price)
       IN  /\ sync' = [sync EXCEPT !.seen_ids = @ \cup {vid}, !.pc = "upsert"]
           /\ IF vid \in DOMAIN tables.online_products
              THEN LET existing == tables.online_products[vid] IN
                   IF PricesChanged(existing.Price, existing.Compare_AT_Price, price, compare)
                   THEN tables' = [tables EXCEPT !.price_history =
                                     Append(@, [Variant_id |-> vid,
                                                Old_Price |-> existing.Price,
                                                New_Price |-> price,
                                                Old_Compare_AT |-> existing.Compare_AT_Price,
                                                New_Compare_AT |-> compare])]
                   ELSE UNCHANGED tables
              ELSE UNCHANGED tables
    /\ UNCHANGED <<mainvars, retry, concurrent, config, shop>>

\* db.upsert_product(...): INSERT ... ON DUPLICATE KEY UPDATE, then the next
\* variant or the end of the loop over the variants
Upsert ==
    /\ sync.pc = "upsert"
    /\ IF CallAccepted(UpsertCallKeywords, UpsertParameters)
       THEN LET variant == sync.products_to_sync[sync.p].variants[sync.v] IN
            /\ tables' = [tables EXCEPT !.online_products =
                            [id \in DOMAIN @ \cup {variant.id} |->
                               IF id = variant.id
                               THEN [Price |-> DecimalOr0(variant.price),
                                     Compare_AT_Price |-> DecimalOr0(variant.compare_at_price)]
                               ELSE @[id]]]
            /\ sync' = [sync EXCEPT !.v = @ + 1,
                                    !.pc = IF sync.v < Len(sync.products_to_sync[sync.p].variants)
                                           THEN "variant"
                                           ELSE "commit"]
       ELSE SyncCrash /\ UNCHANGED tables
    /\ UNCHANGED <<mainvars, retry, concurrent, config, shop>>

\* db.commit() after the variants of a product
SyncCommit ==
    /\ sync.pc = "commit"
    /\ sync' = [sync EXCEPT !.p = @ + 1, !.pc = "product"]
    /\ UNCHANGED <<mainvars, retry, concurrent, config, shop, tables>>

\* db.delete_variants(existing_ids - seen_ids); db.commit()
DeleteVariants ==
    /\ sync.pc = "delete"
    /\ LET to_delete == ToDelete(sync.existing_ids, sync.seen_ids) IN
       /\ tables' = [tables EXCEPT !.online_products =
                        [id \in DOMAIN @ \ to_delete |-> @[id]]]
       /\ sync' = [sync EXCEPT !.pc = "done", !.exit_code = 0, !.deleted = to_delete]
    /\ UNCHANGED <<mainvars, retry, concurrent, config, shop>>

NextSync ==
    \/ SyncStart
    \/ Collect
    \/ SyncProduct
    \/ VariantPrices
    \/ Upsert
    \/ SyncCommit
    \/ DeleteVariants

SpecSync == InitSync /\ [][NextSync]_vars

\* ------------------------------------------------------------------ claims
\* the steps of a product run after the commit of its backup
AfterCommit ==
    pc \in {"delete_rest", "select_rows", "recreate_rest", "delete_first",
            "recreate_first", "select_inventory", "restore", "cleanup_get",
            "cleanup_remove", "complete"}

\* the steps of a product run after both recreate steps
AfterRecreate ==
    pc \in {"select_inventory", "restore", "cleanup_get", "cleanup_remove",
            "complete"}

InRun == pi \in DOMAIN batch /\ variants # <<>>

\* the (location, available) pairs stored in inventory_backup for a variant
BackedUpPairs(vid) ==
    { [location_id |-> r.location_id, available |-> r.available] :
        r \in { x \in inventory_backup : x.variant_id = vid } }

C2_BackupCommittedBeforeDelete ==
    (InRun /\ deleteLog # <<>>) =>
        /\ ~dirty
        /\ \A i \in DOMAIN variants :
              /\ BackupRow(variants[i], i - 1) \in variant_backup
              /\ variants[i].inventory_management =>
                    /\ variants[i].id \in DOMAIN original_locations
                    /\ original_locations[variants[i].id] =
                          { l.location_id : l \in BackedUpPairs(variants[i].id) }

\* a delete has been sent for a product whose backup holds inventory rows
C2_Witness ==
    /\ InRun
    /\ deleteLog # <<>>
    /\ \E i \in DOMAIN variants : BackedUpPairs(variants[i].id) # {}

\* C3: the survivor is the variant at position 0: its delete request comes
\* after every other variant's, the create request built from its backup row
\* comes after every other create request, and the row used to recreate the
\* survivor is the row of the variant deleted as survivor.
C3_SurvivorLast ==
    InRun =>
        /\ \A i \in DOMAIN deleteLog :
              deleteLog[i] = variants[1].id => i = Len(variants)
        /\ \A j \in DOMAIN createLog :
              createLog[j] = variants[1].id =>
                  /\ j = Len(createLog)
                  /\ pc \notin {"recreate_rest", "delete_first", "recreate_first"}
        /\ rows # <<>> => rows[1].id = variants[1].id

\* C4: the survivor's delete request is sent only while the product holds
\* another variant, so no delete of a run is refused as a delete of the last
\* remaining variant.
C4_NoConflict == ~conflict

\* C5: an error that aborts a product's run is caught by the batch driver
\* and every later product of the list is still processed: the process ends
\* either on a start-up error or once the loop has reached the last product.
C5_BatchIsolation ==
    pc \in {"done", "crashed"} => (pi = 0 \/ pi >= Len(batch))

\* C6: the variant rows loaded at recreation time are exactly the variants
\* fetched in the current run, one row per variant, positions 0..N-1.
C6_RowsAreThisRun ==
    (InRun /\ rows # <<>>) =>
        /\ Len(rows) = Len(variants)
        /\ \A i \in DOMAIN rows :
              rows[i].id = variants[i].id /\ rows[i].position = i - 1

\* C7: running the reset twice on the same product reaches DONE both times
\* (no run is ended by an exception when no transport or store error occurs)
\* and leaves no accumulated backup rows for the product.
C7_IdempotentRestart ==
    /\ (fails = 0 => pc # "crashed")
    /\ (InRun /\ AfterCommit) =>
          Cardinality({ r \in variant_backup : r.product_id = product_id })
              = Len(variants)

\* C8: at the end of a product run, every recreated variant whose inventory
\* calls all succeeded has exactly the backed-up (location, available) pairs
\* of its original as the levels of its new inventory item.
C8_RestoredLevels ==
    (InRun /\ pc = "complete") =>
        \A i \in DOMAIN variant_mapping :
            variant_mapping[i][2] \notin inv_failed =>
                GetLevels(variant_mapping[i][2]) = BackedUpPairs(variant_mapping[i][1])

\* C9: after BACKUP, the inventory rows stored for a variant with inventory
\* management and at least one level are exactly the pairs the remote held
\* for its item before any deletion.
C9_BackupComplete ==
    (InRun /\ AfterCommit) =>
        \A i \in DOMAIN variants :
            (variants[i].inventory_management /\ pre_levels[variants[i].id] # {}) =>
                BackedUpPairs(variants[i].id) = pre_levels[variants[i].id]

\* C10: after the recreate steps, the keys of the identity map are exactly
\* the original variant ids whose create request succeeded, each mapped to
\* the inventory-item id that create returned; every key was submitted.
C10_IdentityMap ==
    (InRun /\ AfterRecreate) =>
        /\ { <<variant_mapping[i][1], variant_mapping[i][2]>> : i \in DOMAIN variant_mapping }
              = { <<c.old, c.item>> : c \in created }
        /\ \A i, j \in DOMAIN variant_mapping :
              variant_mapping[i][1] = variant_mapping[j][1] => i = j
        /\ \A c \in created :
              /\ c.old \in Range(createLog)
              /\ c.item \in DOMAIN rlevels
              /\ \A r \in variant_backup : c.item # r.inventory_item_id

\* a run in which one create succeeded and another variant's create failed or
\* was skipped
C10_Witness ==
    /\ InRun
    /\ pc = "complete"
    /\ created # {}
    /\ \E i \in DOMAIN rows : rows[i].id \notin MapKeys(variant_mapping)

\* the steps of a product run after the restore loop
AfterRestore == pc \in {"cleanup_get", "cleanup_remove", "complete"}

\* C11: during the restore step, every backed-up inventory row whose variant
\* is absent from the identity map produces a warning and no set call, and
\* raises no exception; every other inventory row of the product is still
\* processed (a set call is sent for it).
C11_UnrestorableRowsWarned ==
    /\ (InRun /\ (pc = "restore" \/ AfterRestore)) =>
          \A r \in SelectedInventory(product_id) \ inventory_rows :
              IF r.variant_id \in MapKeys(variant_mapping)
              THEN \E c \in setLog :
                      /\ c.row = r
                      /\ c.item = MapVal(variant_mapping, r.variant_id)
              ELSE /\ \E w \in warned : w.row = r
                   /\ \A c \in setLog : c.row # r
    /\ pc = "restore" => inventory_rows # {}
    /\ pc = "crashed" => (warned = {} /\ setLog = {})

\* a run that ended with a warning for one row and a set call for another
C11_Witness ==
    /\ InRun
    /\ pc = "complete"
    /\ warned # {}
    /\ setLog # {}

\* C12: every warning emitted for an unrestorable inventory row names the
\* original variant id, the location id and the backed-up quantity of the row.
C12_WarningNamesRow ==
    \A w \in warned :
        /\ {"variant_id", "location_id", "available"} \subseteq DOMAIN w.text
        /\ w.text.variant_id = w.row.variant_id
        /\ w.text.location_id = w.row.location_id
        /\ w.text.available = w.row.available

\* the title of a backup row holds "perso" in any letter case
TitleHasPerso(row) ==
    LET t == row.variant_json.title IN
    \E i \in 1..(Len(t) - 4) :
        /\ t[i] \in {"p", "P"}
        /\ t[i + 1] \in {"e", "E"}
        /\ t[i + 2] \in {"r", "R"}
        /\ t[i + 3] \in {"s", "S"}
        /\ t[i + 4] \in {"o", "O"}

\* C13: a variant whose title contains "perso" in any letter case, survivor
\* or not, is never submitted for creation and never enters the identity map;
\* its backed-up inventory rows are reported as unrestorable and no set call
\* is sent for them, whatever the item.
C13_PersoExcluded ==
    InRun =>
        \A i \in DOMAIN rows :
            TitleHasPerso(rows[i]) =>
                /\ rows[i].id \notin Range(createLog)
                /\ rows[i].id \notin MapKeys(variant_mapping)
                /\ \A c \in created : c.old # rows[i].id
                /\ \A c \in setLog : c.row.variant_id # rows[i].id
                /\ AfterRestore =>
                      \A r \in SelectedInventory(product_id) :
                          r.variant_id = rows[i].id =>
                              \E w \in warned : w.row = r

\* a finished run in which an excluded variant's inventory row was reported
\* and another variant's inventory was restored
C13_Witness ==
    /\ InRun
    /\ pc = "complete"
    /\ setLog # {}
    /\ \E i \in DOMAIN rows :
          /\ TitleHasPerso(rows[i])
          /\ \E w \in warned : w.row.variant_id = rows[i].id

\* the steps of a product run after the delete loop of the non-survivors
AfterDeleteRest ==
    pc \in {"select_rows", "recreate_rest", "delete_first", "recreate_first",
            "select_inventory", "restore", "cleanup_get", "cleanup_remove",
            "complete"}

\* the steps of a product run after the create loop of the non-survivors
AfterRecreateRest ==
    pc \in {"delete_first", "recreate_first", "select_inventory", "restore",
            "cleanup_get", "cleanup_remove", "complete"}

\* the non-survivors whose delete failed: they are still in the catalog
DeleteFailed(k) == variants[k].id \in VariantIds(product_id)

\* the delete requests of the non-survivors are sent one per variant, in
\* order, whatever the outcome of the earlier ones, and a failed one does
\* not end the run
DeletesAllIssued ==
    /\ pc = "delete_rest" =>
          deleteLog = [k \in 1..(idx - 2) |-> variants[k + 1].id]
    /\ AfterDeleteRest =>
          \A k \in 2..Len(variants) : deleteLog[k - 1] = variants[k].id
    /\ (pc = "crashed" /\ "delete_rest" \in exhausted) => fails >= 2

AllSucceeded ==
    /\ InRun
    /\ pc = "complete"
    /\ exhausted = {}
    /\ ~conflict
    /\ Len(rows) = Len(variants)
    /\ Cardinality(created) = Len(variants)
    /\ \A i \in DOMAIN variants : variants[i].id \notin VariantIds(product_id)

\* C15: after a run in which every delete and create succeeds and no variant
\* is excluded, listing the product's variants returns the recreated variants
\* in the order of the original positions, the recreated survivor first.
C15_OrderPreserved ==
    AllSucceeded =>
        [i \in DOMAIN ListVariants(product_id) |-> ListVariants(product_id)[i].option1]
            = [i \in DOMAIN variants |-> variants[i].option1]

\* C16: in the cleanup step a recreated variant whose original had no
\* inventory management is skipped entirely: neither the levels of its new
\* item are asked for nor is any level of it removed.
C16_UnmanagedSkipped ==
    InRun =>
        \A c \in created :
            (\E i \in DOMAIN rows :
                /\ rows[i].id = c.old
                /\ ~rows[i].variant_json.inventory_management) =>
                /\ c.item \notin getLog
                /\ \A x \in removeLog : x.item # c.item

\* a finished run in which every remote call succeeded and no backup row of
\* the product has an excluded title
EveryCallSucceeded ==
    /\ InRun
    /\ pc = "complete"
    /\ exhausted = {}
    /\ ~conflict
    /\ inv_failed = {}
    /\ \A i \in DOMAIN variants : variants[i].id \notin VariantIds(product_id)
    /\ \A i \in DOMAIN rows : ~TitleHasPerso(rows[i])
    /\ Len(createLog) = Len(rows)
    /\ Cardinality(created) = Len(createLog)

\* the recreated variant of a backup row: the one the create built from the
\* row returned
Recreated(row) ==
    LET c == CHOOSE c \in created : c.old = row.id
        i == CHOOSE i \in DOMAIN ListVariants(product_id) :
                ListVariants(product_id)[i].inventory_item_id = c.item
    IN  ListVariants(product_id)[i]

\* C17: after a full run with every remote call succeeding and no excluded
\* title, the product has as many variants as before; each recreated variant
\* carries the price and option values of its backup row; each variant with
\* inventory management has its original quantity at each original location
\* and no other level; a variant that had no inventory management has no
\* inventory levels.
C17_FullRunRestores ==
    EveryCallSucceeded =>
        /\ Len(ListVariants(product_id)) = Len(variants)
        /\ \A i \in DOMAIN rows :
              LET old == rows[i].variant_json
                  new == Recreated(rows[i])
              IN  /\ new.price = old.price
                  /\ new.option1 = old.option1
                  /\ new.inventory_management = old.inventory_management
                  /\ GetLevels(new.inventory_item_id) =
                        IF old.inventory_management
                        THEN pre_levels[old.id]
                        ELSE {}

\* a finished all-success run of a product with a variant stocked at two
\* locations and a variant without inventory management
C17_Witness ==
    /\ EveryCallSucceeded
    /\ \E i, j \in DOMAIN variants :
          /\ Cardinality(pre_levels[variants[i].id]) = 2
          /\ ~variants[j].inventory_management
          /\ setLog # {}
          /\ removeLog # {}

\* C18: once a remote operation of a product's run has given up (fetch,
\* delete, create or inventory step), no further remote operation is sent
\* for that product: the only step left to the run is the move to the next
\* product, and the process does not end there.
C18_AbandonedOnExhaustion ==
    [][(InRun /\ exhausted # {}) =>
          /\ UNCHANGED <<deleteLog, createLog, setLog, getLog, removeLog>>
          /\ pc' # "crashed"]_vars

\* the outcomes the retry policy repeats a request for: 429, 502, 503, 504
\* and a connection failure
Retryable(response) ==
    \/ response.kind = "ConnectionError"
    \/ response.status_code \in {429, 502, 503, 504}

\* C19: a remote operation sends at most max_retries (5) requests, in
\* safe_request and in ShopifyClient._request alike and whatever the answers;
\* an operation whose requests all ended in a retryable outcome raises an
\* error and returns no response.
C19_AtMostFiveAttempts ==
    /\ Len(trail) <= 5
    /\ (outcome # "running" /\ \A i \in DOMAIN trail : Retryable(trail[i].response))
          => outcome = "raised"
    /\ outcome = "returned" =>
          /\ trail[Len(trail)].response.kind = "response"
          /\ trail[Len(trail)].response.status_code < 400

\* five requests were sent, each ended in a retryable outcome, and the
\* operation raised
C19_Witness ==
    /\ Len(trail) = 5
    /\ outcome = "raised"
    /\ \A i \in DOMAIN trail : Retryable(trail[i].response)

\* C20: on HTTP 429 at attempt k (0..4) the wait before the next attempt is
\* the Retry-After the server provided when there is one (a number of
\* seconds), and min(2^k, 32) when there is none, in ShopifyClient._request
\* and in safe_request alike.
C20_WaitOn429 ==
    \A i \in DOMAIN trail :
        LET res == trail[i].response
            k == i - 1
        IN  res.status_code = 429 =>
               IF "Retry-After" \in DOMAIN res.headers
               THEN FloatParses(res.headers["Retry-After"]) =>
                       trail[i].wait = Float(res.headers["Retry-After"])
               ELSE trail[i].wait = Min(2 ^ k, 32)

\* a 502, 503 or 504 response, or a connection failure
Transient(response) ==
    \/ response.kind = "ConnectionError"
    \/ response.status_code \in {502, 503, 504}

\* C21: a 502, 503 or 504 response and a connection failure are each
\* followed by the exponential backoff wait and, while attempts remain, by
\* another request instead of an error to the caller, in safe_request as in
\* ShopifyClient._request.
C21_TransientRetried ==
    \A i \in DOMAIN trail :
        Transient(trail[i].response) =>
            /\ trail[i].wait = Min(2 ^ (i - 1), 32)
            /\ i < 5 => (Len(trail) > i \/ outcome = "running")

\* C22: a 4xx response other than 429 is never retried: it is the last
\* request of the operation, no wait follows it, and the operation raises.
C22_ClientErrorNotRetried ==
    \A i \in DOMAIN trail :
        (/\ trail[i].response.kind = "response"
         /\ trail[i].response.status_code \in (400..499) \ {429}) =>
            /\ i = Len(trail)
            /\ trail[i].wait = -1
            /\ outcome = "raised"

\* an operation that was retried and then got a 4xx other than 429
C22_Witness ==
    /\ Len(trail) >= 2
    /\ trail[Len(trail)].response.status_code \in {400, 404}
    /\ outcome = "raised"

\* the steps at which main sends a remote request next, whatever the data
SendsNext ==
    pc \in {"fetch", "delete_rest", "delete_first", "cleanup_get",
            "cleanup_remove"}

\* C23: every mutating remote call, one that ended in an error included, is
\* followed by the fixed throttle delay before the next remote call is sent:
\* no request is about to be sent while the delay after the last mutating
\* call has not been taken.
C23_ThrottleAfterMutating == SendsNext => slept

\* the original position of a backed-up variant
PositionOf(old_variant_id) ==
    (CHOOSE r \in SelectedRows(product_id) : r.id = old_variant_id).position

\* the steps of one product follow one another: a create is sent only after
\* the delete of every non-survivor, the survivor's create only after its
\* delete, an inventory call only after both recreate steps
StepsInOrder ==
    /\ createLog # <<>> => Len(deleteLog) >= Len(variants) - 1
    /\ pc \in {"select_inventory", "restore", "cleanup_get", "cleanup_remove",
              "complete"} => Len(deleteLog) = Len(variants)
    /\ (setLog # {} \/ warned # {}) => (pc = "restore" \/ AfterRestore)
    /\ (getLog # {} \/ removeLog # {}) => (AfterRestore /\ inventory_rows = {})

\* the products that reached the end are in input order
ProductsInOrder ==
    \A i, j \in DOMAIN completed :
        i < j => \E a, b \in DOMAIN batch :
                    a < b /\ batch[a] = completed[i] /\ batch[b] = completed[j]

\* C24: within one product run the steps send their requests in the order
\* of the state machine; within every step, the restore and cleanup steps
\* included, variants are processed in ascending original position; products
\* are processed in input order.
C24_Ordered ==
    /\ ProductsInOrder
    /\ InRun =>
          /\ StepsInOrder
          /\ pc = "restore" =>
                \A r \in SelectedInventory(product_id) \ inventory_rows :
                    \A q \in inventory_rows :
                        PositionOf(r.variant_id) <= PositionOf(q.variant_id)
          /\ pc \in {"cleanup_get", "cleanup_remove"} =>
                \A i, j \in 1..idx :
                    i < j => PositionOf(variant_mapping[i][1])
                                < PositionOf(variant_mapping[j][1])

\* C25: when the fetch returns an empty variant list the run of the product
\* ends there: no backup row is written, no delete, create, inventory-set or
\* inventory-remove request is sent, and the loop moves to the next product
\* (or leaves the loop after the last one).
C25_EmptyFetchSkips ==
    [][(pc = "fetch" /\ ListVariants(product_id) = <<>>) =>
          /\ UNCHANGED <<remote, store, exit_code, completed>>
          /\ pi' = pi + 1
          /\ pc' = IF pi < Len(batch) THEN "fetch" ELSE "close"
          /\ deleteLog' = <<>> /\ createLog' = <<>>
          /\ setLog' = {} /\ removeLog' = {}]_vars

\* the first product had no variant, its fetch did not fail, and the loop is
\* at the fetch of the second product with an empty backup
C25_Witness ==
    /\ pc = "fetch"
    /\ pi = 2
    /\ fails = 0
    /\ ListVariants(batch[1]) = <<>>
    /\ variant_backup = {}

\* C26: when saving one variant's backup row fails, the backup of the
\* product goes on with its other variants (the failure ends neither the
\* product's backup nor the process), and a variant without a backup row is
\* neither deleted nor submitted for recreation.
C26_BackupRowFailureSkipsVariant ==
    [][pc = "backup_variant" =>
          /\ pc' \in {"backup_variant", "backup_inventory", "commit"}
          /\ \A i \in DOMAIN deleteLog' :
                \E r \in variant_backup' : r.id = deleteLog'[i]]_vars

\* C27: two runs executing at the same time on different products do not
\* interfere through the store: from its initialisation on, the rows a run
\* finds for its product are the rows it wrote, whatever the other run
\* initialises or writes meanwhile, and it reads exactly them.
C27_ConcurrentRunsIsolated ==
    \A run \in DOMAIN runs :
        /\ runs[run].pc # "ensure" =>
              /\ { r \in sessions[TableSpace(run)].variant_backup :
                     r.product_id = ProductOf(run) } = runs[run].written_variants
              /\ { r \in sessions[TableSpace(run)].inventory_backup :
                     \E v \in runs[run].written_variants : v.id = r.variant_id }
                    = runs[run].written_inventory
        /\ runs[run].pc \in {"select_inventory", "done"} =>
              runs[run].seen_variants = runs[run].written_variants
        /\ runs[run].pc = "done" =>
              runs[run].seen_inventory = runs[run].written_inventory

\* one run has read its whole backup although the other run initialised its
\* tables after the first had written its rows
C27_Witness ==
    /\ DOMAIN runs = Runs
    /\ runs["A"].pc = "done"
    /\ runs["A"].seen_variants # {}
    /\ runs["B"].pc = "insert_variant"
    /\ runs["B"].idx = 1
    /\ sessions[TableSpace("B")].variant_backup = {}

\* C28: once the store connection is open and the product loop has begun,
\* the process ends with exit code 0 whatever failed inside a product (the
\* fetch, a delete, a create, an inventory call, the backup step).
C28_ExitZeroAfterStart ==
    (pi >= 1 /\ pc \in {"done", "crashed"}) => exit_code = 0

\* C29: Config.from_env ends the process with exit code 1 exactly when one of
\* the six mandatory variables, or PRODUCT_IDS when it is required, is not
\* defined or is empty; reset_variants.main ends with exit code 1 when
\* PRODUCT_IDS is not defined, and opens the store connection only when
\* it is defined.
C29_InvalidConfigExits ==
    /\ (entry = "from_env" /\ config_result # "pending") =>
          /\ config_result \in {"exit_1", "Config"}
          /\ config_result = "exit_1" <=>
                \E name \in EnvNames :
                    /\ name = "PRODUCT_IDS" => require_product_ids
                    /\ ~env[name].defined \/ env[name].value = <<>>
    /\ (entry = "main" /\ config_result # "pending" /\ ~env["PRODUCT_IDS"].defined) =>
          config_result = "exit_1"
    /\ (entry = "main" /\ config_result \in {"connect_db", "connected"}) =>
          env["PRODUCT_IDS"].defined

\* from_env has ended the process because PRODUCT_IDS, required, is defined
\* but empty, every other variable being set
C29_Witness ==
    /\ entry = "from_env"
    /\ require_product_ids
    /\ config_result = "exit_1"
    /\ env["PRODUCT_IDS"] = [defined |-> TRUE, value |-> <<>>]
    /\ \A name \in EnvNames \ {"PRODUCT_IDS"} : env[name].value # <<>>

\* C30: at the end of a batch the driver reports how many products completed
\* and how many failed, the two numbers adding up to the number of
\* identifiers supplied.
C30_SummaryCounts ==
    pc = "done" =>
        /\ {"completed", "failed"} \subseteq DOMAIN FinalLog
        /\ FinalLog.completed + FinalLog.failed = Len(batch)

\* C31: a response of graphql that carries an error marked THROTTLED is
\* followed, while attempts remain, by a wait and another send of the query:
\* the call does not end in an exception on that response.
C31_ThrottledResent ==
    (caller = "graphql" /\ trail # <<>>) =>
        LET last == trail[Len(trail)].response IN
        (/\ last.status_code = 200
         /\ "errors" \in DOMAIN last.result
         /\ \E i \in DOMAIN last.result.errors :
               "extensions" \in DOMAIN last.result.errors[i]
         /\ Len(trail) < max_retries)
           => outcome = "running"

\* C32: for every list of product identifiers and every behaviour of the
\* remote API that answers each request, main terminates: the end of the
\* batch, or the exception that ends the process, is eventually reached.
C32_Terminates == <>(pc \in {"done", "crashed"})

\* a batch of MaxBatch products has reached its end although a remote call
\* or a store call failed on the way
C32_Witness ==
    /\ pc = "done"
    /\ Len(batch) = MaxBatch
    /\ fails = MaxFailures
    /\ Len(completed) = MaxBatch

C35_RestoreTargetsMappedItem ==
    \A c \in setLog :
        /\ \E r \in inventory_backup :
              /\ r.variant_id = c.row.variant_id
              /\ r.location_id = c.location_id
              /\ r.available = c.available
        /\ \E i \in DOMAIN variant_mapping :
              /\ variant_mapping[i][1] = c.row.variant_id
              /\ variant_mapping[i][2] = c.item
        /\ \A i \in DOMAIN variant_mapping :
              variant_mapping[i][2] = c.item => variant_mapping[i][1] = c.row.variant_id
        /\ \A r \in variant_backup : r.inventory_item_id # c.item
        /\ \A r \in inventory_backup : r.inventory_item_id # c.item

\* the restore step of a product has sent set calls for the rows of two
\* different original variants, and a third row was left without a call
C35_Witness ==
    /\ pc = "complete"
    /\ \E c \in setLog, d \in setLog :
          c.row.variant_id # d.row.variant_id /\ c.item # d.item
    /\ pi = 2

\* C36: in a batch over distinct products each product's run uses only its
\* own state: the identity map and the original-location map hold nothing of
\* an earlier product, and the variant rows and inventory rows read in the
\* recreate and restore steps are rows of the variants fetched and backed up
\* in this product's run, although the rows of the earlier products are
\* still in the store.
C36_OwnStateOnly ==
    ((\A i, j \in DOMAIN batch : i # j => batch[i] # batch[j]) /\ pi \in DOMAIN batch) =>
        LET fetched == { variants[k].id : k \in DOMAIN variants } IN
        /\ pc \in {"fetch", "backup_variant", "backup_inventory", "commit",
                   "delete_rest", "select_rows"} => variant_mapping = <<>>
        /\ (pc = "fetch" \/ (pc = "backup_variant" /\ idx = 1)) =>
              original_locations = EmptyMap
        /\ DOMAIN original_locations \subseteq fetched
        /\ \A i \in DOMAIN variant_mapping : variant_mapping[i][1] \in fetched
        /\ \A i \in DOMAIN rows :
              /\ rows[i].id \in fetched
              /\ \E r \in variant_backup :
                    r.id = rows[i].id /\ r.product_id = batch[pi]
        /\ \A r \in inventory_rows : r.variant_id \in fetched
        /\ \A c \in setLog : c.row.variant_id \in fetched
        /\ \A w \in warned : w.row.variant_id \in fetched

\* the second product of a batch is in its restore step, with rows read for
\* it, while the rows of the first product are still in both tables
C36_Witness ==
    /\ batch = <<"P1", "P2">>
    /\ pi = 2
    /\ pc = "restore"
    /\ rows # <<>>
    /\ \E r \in variant_backup : r.product_id = "P1"
    /\ \E r \in inventory_backup, v \in variant_backup :
          v.product_id = "P1" /\ r.variant_id = v.id

\* C37: the cleanup step sends remove_inventory_level only for items that
\* are values of the identity map, and never for a location that is in the
\* backed-up location set of the original variant mapped to that item.
C37_CleanupKeepsOriginalLocations ==
    \A x \in removeLog :
        /\ \E i \in DOMAIN variant_mapping : variant_mapping[i][2] = x.item
        /\ \A i \in DOMAIN variant_mapping :
              variant_mapping[i][2] = x.item =>
                 \A r \in inventory_backup :
                    r.variant_id = variant_mapping[i][1] => r.location_id # x.location_id

\* C38: the two delete steps send a delete request for every fetched
\* variant, whatever its title; the title filter acts at recreation only, so
\* a fetched variant whose title contains "perso" is deleted from the remote
\* and no create request is sent for it (runs without transport or store
\* errors).
C38_PersoDeletedNotRecreated ==
    (InRun /\ fails = 0
        /\ pc \in {"recreate_first", "select_inventory", "restore", "cleanup_get",
                   "cleanup_remove", "complete"}) =>
        /\ \A k \in DOMAIN variants : variants[k].id \in Range(deleteLog)
        /\ \A k \in DOMAIN variants :
              TitleHasPerso([variant_json |-> variants[k]]) =>
                 /\ variants[k].id \notin Range(createLog)
                 /\ variants[k].id \notin VariantIds(product_id)

\* C39: the create request of the survivor is sent, unless its title is
\* excluded, whether or not the survivor's delete request succeeded: when
\* that delete fails, a create with the survivor's backed-up attributes is
\* still sent while the original survivor is still on the remote.
C39_SurvivorCreatedAfterFailedDelete ==
    (InRun /\ AfterRecreate /\ ~TitleHasPerso([variant_json |-> variants[1]])) =>
        /\ variants[1].id \in Range(createLog)
        /\ \E i \in DOMAIN rows :
              /\ rows[i].id = variants[1].id
              /\ rows[i].variant_json = variants[1]

\* a run whose survivor could not be deleted and was submitted for creation
\* all the same: the original survivor is still on the remote
C39_Witness ==
    /\ InRun
    /\ pc = "complete"
    /\ "delete_first" \in exhausted
    /\ variants[1].id \in Range(createLog)
    /\ variants[1].id \in VariantIds(product_id)

\* C40: a failed fetch of a variant's inventory levels in the backup step
\* does not end the product's run: the step leaves no inventory row for the
\* variant, records an empty original-location set for it next to its
\* variant row, and the run goes on to the next variant or to the commit.
C40_LevelsFailureDoesNotAbort ==
    [][ (pc = "backup_inventory" /\ fails' # fails) =>
          /\ pc' \in {"backup_variant", "commit"}
          /\ exit_code' = exit_code
          /\ inventory_backup' = inventory_backup
          /\ variants[idx].id \in DOMAIN original_locations'
          /\ original_locations'[variants[idx].id] = {}
          /\ \E r \in variant_backup' : r.id = variants[idx].id ]_vars

\* a run has reached the recreate steps after the levels of a variant that
\* had levels at FETCH could not be read: that variant has an empty
\* original-location set and no inventory row
C40_Witness ==
    /\ InRun
    /\ pc = "recreate_first"
    /\ "backup_inventory" \in exhausted
    /\ \E k \in DOMAIN variants :
          /\ pre_levels[variants[k].id] # {}
          /\ variants[k].id \in DOMAIN original_locations
          /\ original_locations[variants[k].id] = {}
          /\ \A r \in inventory_backup : r.variant_id # variants[k].id
====
